---- MODULE Spec2Model ----
(***************************************************************************)
(* Chu-Liu-Edmonds minimum spanning arborescence, as implemented by        *)
(* chuLiuEdmonds(n, root, edges) in src/edmonds.cc.                        *)
(*                                                                         *)
(* One call of the function is modelled.  The vectors of the code are      *)
(* functions over 0..size-1 (the code's indices are kept); the edge list   *)
(* is a sequence, and the code's edge index k is position k+1 of it.       *)
(* The variable edges is the caller's vector: the function takes it by     *)
(* non-const reference and assigns to it.                                  *)
(***************************************************************************)
EXTENDS Integers, Sequences, FiniteSets, TLC

\* Bounds of the model.
MaxN == 2
MaxEdges == 2
MaxW == 1

Weights == (-1)..MaxW

VARIABLES n, root, edges, minWeight, inEdge, cycle, visited, cycleCount,
          contractedEdges, pc, result, n0, root0, edges0, rounds

vars == <<n, root, edges, minWeight, inEdge, cycle, visited, cycleCount,
          contractedEdges, pc, result, n0, root0, edges0, rounds>>

----------------------------------------------------------------------------
\* Data

\* struct Edge { int from, to, weight; }
Edge(V) == [from : V, to : V, weight : Weights]

\* A vector<int> of the given size, every element v.
Vector(size, v) == [i \in 0..(size - 1) |-> v]

\* edges[k] of the code.
EdgeAt(es, k) == es[k + 1]

\* The outcome of the call: still running, returned an int, or the
\* process died (one of the outcomes of undefined behaviour).
NoResult == [kind |-> "none", value |-> 0]
Returned(v) == [kind |-> "return", value |-> v]
Crashed == [kind |-> "crash", value |-> 0]

\* What a build may do once the code has indexed a vector out of range:
\* die, or go on and return some int.
UBOutcomes == {Crashed} \cup {Returned(v) : v \in (-1)..1}

----------------------------------------------------------------------------
\* Selection: for (Edge& edge : edges) ... inEdge[edge.to] = index

\* for (int i = 0; i < n; i++) inEdge[i] = -1;
ResetInEdge(ie, k) == [i \in DOMAIN ie |-> IF i < k THEN -1 ELSE ie[i]]

\* Better with the comparison turned round: the heaviest edge is kept.
BetterHeaviest(es, ie, e) ==
    \/ ie[e.to] = -1
    \/ e.weight > EdgeAt(es, ie[e.to]).weight

\* Better without the comparison: the first incoming edge is kept.
BetterFirstSeen(es, ie, e) == ie[e.to] = -1

\* inEdge[edge.to] == -1 || edge.weight < edges[inEdge[edge.to]].weight
Better(es, ie, e) ==
    \/ ie[e.to] = -1
    \/ e.weight < EdgeAt(es, ie[e.to]).weight

\* The loop over the edges from edge index k on.  ub: inEdge was indexed
\* out of range.
RECURSIVE SelectLoop(_, _, _)
SelectLoop(es, ie, k) ==
    IF k >= Len(es) THEN [inEdge |-> ie, ub |-> FALSE]
    ELSE LET e == EdgeAt(es, k) IN
         IF e.from = e.to THEN SelectLoop(es, ie, k + 1)
         ELSE IF e.to \notin DOMAIN ie THEN [inEdge |-> ie, ub |-> TRUE]
         ELSE IF Better(es, ie, e)
              THEN SelectLoop(es, [ie EXCEPT ![e.to] = k], k + 1)
              ELSE SelectLoop(es, ie, k + 1)

\* MissingIncoming written as if the root were vertex 0.
MissingIncomingRootZero(k, r, ie) ==
    \E i \in 1..(k - 1) : ie[i] = -1

\* MissingIncoming without the exemption of the root.
MissingIncomingAnyVertex(k, r, ie) ==
    \E i \in 0..(k - 1) : ie[i] = -1

\* if (i != root && inEdge[i] == -1) return -1;   for some i < n
MissingIncoming(k, r, ie) ==
    \E i \in 0..(k - 1) : i /= r /\ ie[i] = -1

----------------------------------------------------------------------------
\* Cycle detection

\* edges[inEdge[u]].from can be evaluated without leaving the vectors.
FromOK(es, ie, u) ==
    /\ u \in DOMAIN ie
    /\ ie[u] >= 0
    /\ ie[u] < Len(es)

\* edges[inEdge[u]].from
From(es, ie, u) == EdgeAt(es, ie[u]).from

\* while (visited[u] != 2 && !hasCycle) { ... }
RECURSIVE Walk(_, _, _, _)
Walk(es, ie, vis, u) ==
    IF u \notin DOMAIN vis
    THEN [visited |-> vis, u |-> u, hasCycle |-> FALSE, ub |-> TRUE]
    ELSE IF vis[u] = 2
    THEN [visited |-> vis, u |-> u, hasCycle |-> FALSE, ub |-> FALSE]
    ELSE IF vis[u] = 1
    THEN [visited |-> vis, u |-> u, hasCycle |-> TRUE, ub |-> FALSE]
    ELSE IF ~FromOK(es, ie, u)
    THEN [visited |-> vis, u |-> u, hasCycle |-> FALSE, ub |-> TRUE]
    ELSE Walk(es, ie, [vis EXCEPT ![u] = 1], From(es, ie, u))

\* MarkCycle without the loop: only the vertex the walk met twice is marked.
MarkCycleFirstOnly(es, ie, cyc, v, u, cycleId) == [cyc EXCEPT ![v] = cycleId]

\* do { cycle[v] = cycleId; v = edges[inEdge[v]].from; } while (v != u);
\* Every v met here was visited by Walk, so it is in range.
RECURSIVE MarkCycle(_, _, _, _, _, _)
MarkCycle(es, ie, cyc, v, u, cycleId) ==
    LET marked == [cyc EXCEPT ![v] = cycleId]
        next == From(es, ie, v)
    IN IF next = u THEN marked
       ELSE MarkCycle(es, ie, marked, next, u, cycleId)

\* while (visited[u2] != 2) { visited[u2] = 2; u2 = edges[inEdge[u2]].from; }
RECURSIVE Settle(_, _, _, _)
Settle(es, ie, vis, u2) ==
    IF vis[u2] = 2 THEN vis
    ELSE Settle(es, ie, [vis EXCEPT ![u2] = 2], From(es, ie, u2))

\* for (int i = 0; i < n; i++) if (visited[i] == 0) { ... }
\* d = [visited, cycle, cycleCount, ub]
RECURSIVE DetectLoop(_, _, _, _, _)
DetectLoop(es, ie, k, d, i) ==
    IF i >= k THEN d
    ELSE IF d.visited[i] /= 0 THEN DetectLoop(es, ie, k, d, i + 1)
    ELSE LET w == Walk(es, ie, d.visited, i) IN
         IF w.ub THEN [d EXCEPT !.ub = TRUE]
         ELSE LET cyc == IF w.hasCycle
                         THEN MarkCycle(es, ie, d.cycle, w.u, w.u, d.cycleCount)
                         ELSE d.cycle
                  cnt == IF w.hasCycle THEN d.cycleCount + 1 ELSE d.cycleCount
                  vis == Settle(es, ie, w.visited, i)
              IN DetectLoop(es, ie, k,
                            [visited |-> vis, cycle |-> cyc,
                             cycleCount |-> cnt, ub |-> FALSE], i + 1)

\* The whole detection phase: fill(cycle, -1); fill(visited, 0);
\* visited[root] = 2; the loop.  The fills cover the whole vectors.
DetectCycles(es, ie, k, r, size) ==
    IF r \notin 0..(size - 1)
    THEN [visited |-> Vector(size, 0), cycle |-> Vector(size, -1),
          cycleCount |-> 0, ub |-> TRUE]
    ELSE DetectLoop(es, ie, k,
                    [visited |-> [Vector(size, 0) EXCEPT ![r] = 2],
                     cycle |-> Vector(size, -1),
                     cycleCount |-> 0, ub |-> FALSE], 0)

----------------------------------------------------------------------------
\* Accumulation

\* for (i < n) if (i != root && inEdge[i] != -1)
\*     minWeight += edges[inEdge[i]].weight;
RECURSIVE SelectedWeight(_, _, _, _, _)
SelectedWeight(es, ie, k, r, i) ==
    IF i >= k THEN 0
    ELSE (IF i /= r /\ ie[i] /= -1 THEN EdgeAt(es, ie[i]).weight ELSE 0)
         + SelectedWeight(es, ie, k, r, i + 1)

----------------------------------------------------------------------------
\* Contraction

\* id[current] = numNodes for the rest of the cycle through i:
\* while (current != i) { id[current] = numNodes; current = ...from; }
RECURSIVE RelabelCycle(_, _, _, _, _, _)
RelabelCycle(es, ie, id, current, i, numNodes) ==
    IF current = i THEN id
    ELSE RelabelCycle(es, ie, [id EXCEPT ![current] = numNodes],
                      From(es, ie, current), i, numNodes)

\* AssignIds without the merge: every vertex gets an index of its own.
AssignIdsNoMerge(es, ie, cyc, k, a, i) ==
    [id |-> [j \in 0..(k - 1) |-> j + 1], numNodes |-> k]

\* for (int i = 0; i < n; ++i) { ... id[i] = ++numNodes ... }
\* a = [id, numNodes]
RECURSIVE AssignIds(_, _, _, _, _, _)
AssignIds(es, ie, cyc, k, a, i) ==
    IF i >= k THEN a
    ELSE IF cyc[i] /= -1
    THEN IF a.id[i] = 0
         THEN LET num == a.numNodes + 1
                  id1 == [a.id EXCEPT ![i] = num]
              IN AssignIds(es, ie, cyc, k,
                           [id |-> RelabelCycle(es, ie, id1, From(es, ie, i), i, num),
                            numNodes |-> num], i + 1)
         ELSE AssignIds(es, ie, cyc, k, a, i + 1)
    ELSE AssignIds(es, ie, cyc, k,
                   [id |-> [a.id EXCEPT ![i] = a.numNodes + 1],
                    numNodes |-> a.numNodes + 1], i + 1)

\* Discount without the subtraction.
DiscountNone(es, ie, e) == e.weight

\* int w = edge.weight; w -= edges[inEdge[edge.to]].weight;
Discount(es, ie, e) == e.weight - EdgeAt(es, ie[e.to]).weight

\* for (auto& edge : edges) { u = id[edge.from]-1; v = id[edge.to]-1;
\*     if (u != v) contractedEdges.push_back({u, v, w}); }
\* from edge index j on; out is contractedEdges so far.
RECURSIVE ContractLoop(_, _, _, _, _)
ContractLoop(es, ie, id, j, out) ==
    IF j >= Len(es) THEN [edges |-> out, ub |-> FALSE]
    ELSE LET e == EdgeAt(es, j) IN
         IF e.from \notin DOMAIN id \/ e.to \notin DOMAIN id
         THEN [edges |-> out, ub |-> TRUE]
         ELSE LET u == id[e.from] - 1
                  v == id[e.to] - 1
              IN IF u = v THEN ContractLoop(es, ie, id, j + 1, out)
                 ELSE IF ~FromOK(es, ie, e.to) THEN [edges |-> out, ub |-> TRUE]
                 ELSE ContractLoop(es, ie, id, j + 1,
                        Append(out, [from |-> u, to |-> v,
                                     weight |-> Discount(es, ie, e)]))

----------------------------------------------------------------------------
\* The call

\* Edge lists of at most len edges over the vertices V.
EdgeLists(V, len) == UNION { [1..l -> Edge(V)] : l \in 0..len }

\* Graphs of the test suite with a contraction: Test Case 13 without its
\* last edge (two disjoint cycles, root 4), and Test Case 5 with the edge
\* 2->1 of Test Case 12 and an edge into the root added (a cycle within a
\* cycle, root 0).
Shapes ==
    << [n |-> 5, root |-> 4,
        pairs |-> << <<4, 0>>, <<0, 1>>, <<1, 0>>, <<4, 2>>,
                     <<2, 3>>, <<3, 2>>, <<4, 1>> >>],
       [n |-> 4, root |-> 0,
        pairs |-> << <<0, 1>>, <<1, 2>>, <<2, 3>>, <<3, 1>>,
                     <<0, 3>>, <<2, 1>>, <<3, 0>> >>] >>

\* The mark of an edge of a shape that is left out of the edge list.
LeftOut == MaxW + 1

\* The edge list of a shape: pick[i] is the weight of its i-th edge, or
\* LeftOut.
RECURSIVE ShapeEdges(_, _, _)
ShapeEdges(pairs, pick, i) ==
    IF i > Len(pairs) THEN << >>
    ELSE (IF pick[i] = LeftOut THEN << >>
          ELSE << [from |-> pairs[i][1], to |-> pairs[i][2],
                   weight |-> pick[i]] >>)
         \o ShapeEdges(pairs, pick, i + 1)

\* The state on entry of the while (true) loop, lines 34-36 done, for the
\* call chuLiuEdmonds(k, r, es).
Enter(k, r, es) ==
    /\ n0 = k /\ root0 = r /\ edges0 = es
    /\ n = k /\ root = r /\ edges = es
    /\ minWeight = 0
    /\ inEdge = Vector(k, -1)
    /\ cycle = Vector(k, -1)
    /\ visited = Vector(k, 0)
    /\ cycleCount = 0
    /\ contractedEdges = << >>
    /\ pc = "select"
    /\ result = NoResult
    /\ rounds = 0

\* The calls that meet the precondition (n >= 1, root and every endpoint
\* in [0, n)): every call with at most MaxN vertices and MaxEdges edges,
\* and every weighting of every sub-list of the shapes.
Init ==
    \/ \E k \in 1..MaxN : \E r \in 0..(k - 1) :
         \E es \in EdgeLists(0..(k - 1), MaxEdges) : Enter(k, r, es)
    \/ \E s \in 1..Len(Shapes) :
         \E pick \in [1..Len(Shapes[s].pairs) -> Weights \cup {LeftOut}] :
            Enter(Shapes[s].n, Shapes[s].root,
                  ShapeEdges(Shapes[s].pairs, pick, 1))

\* The calls that break the precondition: n may be 0, root and endpoints
\* may be n, one past the last vertex, and one of them is.
Malformed(k, r, es) ==
    \/ k < 1
    \/ r \notin 0..(k - 1)
    \/ \E i \in 1..Len(es) :
          es[i].from \notin 0..(k - 1) \/ es[i].to \notin 0..(k - 1)

InitAny ==
    \/ Init
    \/ \E k \in 0..MaxN : \E r \in 0..k :
         \E es \in EdgeLists(0..k, MaxEdges) :
            Malformed(k, r, es) /\ Enter(k, r, es)

\* The call ends: a return, or an outcome of undefined behaviour.
Finish(outcomes) ==
    /\ result' \in outcomes
    /\ pc' = "done"

\* Lines 39-52: reset inEdge, select the minimum incoming edge of every
\* vertex, return -1 if a vertex other than root has none.
Select ==
    /\ pc = "select"
    /\ LET s == SelectLoop(edges, ResetInEdge(inEdge, n), 0) IN
       /\ inEdge' = s.inEdge
       /\ IF s.ub THEN Finish(UBOutcomes)
          ELSE IF MissingIncoming(n, root, s.inEdge) THEN Finish({Returned(-1)})
          ELSE pc' = "detect" /\ result' = result
    /\ UNCHANGED <<n, root, edges, minWeight, cycle, visited, cycleCount,
                   contractedEdges, n0, root0, edges0, rounds>>

\* Lines 54-85.
Detect ==
    /\ pc = "detect"
    /\ LET d == DetectCycles(edges, inEdge, n, root, n0) IN
       /\ visited' = d.visited
       /\ cycle' = d.cycle
       /\ cycleCount' = d.cycleCount
       /\ IF d.ub THEN Finish(UBOutcomes)
          ELSE pc' = "accumulate" /\ result' = result
    /\ UNCHANGED <<n, root, edges, minWeight, inEdge, contractedEdges,
                   n0, root0, edges0, rounds>>

\* Lines 87-91.
Accumulate ==
    /\ pc = "accumulate"
    /\ minWeight' = minWeight + SelectedWeight(edges, inEdge, n, root, 0)
    /\ pc' = "test"
    /\ UNCHANGED <<n, root, edges, inEdge, cycle, visited, cycleCount,
                   contractedEdges, result, n0, root0, edges0, rounds>>

\* Lines 93-95: if (cycleCount == 0) return minWeight;
ReturnWeight ==
    /\ pc = "test"
    /\ cycleCount = 0
    /\ Finish({Returned(minWeight)})
    /\ UNCHANGED <<n, root, edges, minWeight, inEdge, cycle, visited,
                   cycleCount, contractedEdges, n0, root0, edges0, rounds>>

\* Lines 97-127: relabel, build the contracted edge list, replace the
\* snapshot (the caller's vector included) and go round the loop.
Contract ==
    /\ pc = "test"
    /\ cycleCount /= 0
    /\ LET a == AssignIds(edges, inEdge, cycle, n,
                          [id |-> Vector(n, 0), numNodes |-> 0], 0)
           c == ContractLoop(edges, inEdge, a.id, 0, << >>)
       IN /\ contractedEdges' = c.edges
          /\ IF c.ub
             THEN /\ Finish(UBOutcomes)
                  /\ UNCHANGED <<n, root, edges, rounds>>
             ELSE /\ edges' = c.edges
                  /\ n' = a.numNodes
                  /\ root' = a.id[root] - 1
                  /\ rounds' = rounds + 1
                  /\ pc' = "select"
                  /\ result' = result
    /\ UNCHANGED <<minWeight, inEdge, cycle, visited, cycleCount,
                   n0, root0, edges0>>

Next ==
    \/ Select
    \/ Detect
    \/ Accumulate
    \/ ReturnWeight
    \/ Contract

\* Calls that meet the precondition.
Spec == Init /\ [][Next]_vars

\* Calls that may break it.
SpecAny == InitAny /\ [][Next]_vars

TypeOK ==
    /\ pc \in {"select", "detect", "accumulate", "test", "done"}
    /\ result.kind \in {"none", "return", "crash"}
    /\ (pc = "done") = (result.kind /= "none")

----------------------------------------------------------------------------
\* The function as a whole, for calls that meet the precondition:
\* the result record of chuLiuEdmonds(k, r, es), with the vectors ie
\* (inEdge) as left by the iterations before and acc = minWeight so far.
RECURSIVE Solve(_, _, _, _, _)
Solve(k, r, es, ie, acc) ==
    LET s == SelectLoop(es, ResetInEdge(ie, k), 0) IN
    IF s.ub THEN Crashed
    ELSE IF MissingIncoming(k, r, s.inEdge) THEN Returned(-1)
    ELSE LET d == DetectCycles(es, s.inEdge, k, r, Cardinality(DOMAIN ie))
             total == acc + SelectedWeight(es, s.inEdge, k, r, 0)
         IN IF d.ub THEN Crashed
            ELSE IF d.cycleCount = 0 THEN Returned(total)
            ELSE LET a == AssignIds(es, s.inEdge, d.cycle, k,
                                    [id |-> Vector(k, 0), numNodes |-> 0], 0)
                     c == ContractLoop(es, s.inEdge, a.id, 0, << >>)
                 IN IF c.ub THEN Crashed
                    ELSE Solve(a.numNodes, a.id[r] - 1, c.edges, s.inEdge, total)

\* chuLiuEdmonds(k, r, es)
ChuLiuEdmonds(k, r, es) == Solve(k, r, es, Vector(k, -1), 0)

----------------------------------------------------------------------------
\* Graph theory the claims are stated in (no code is modelled below).

\* The vertices reachable from those of S along the edges es.
RECURSIVE ReachFrom(_, _)
ReachFrom(es, S) ==
    LET T == S \cup { es[j].to : j \in { i \in 1..Len(es) : es[i].from \in S } }
    IN IF T = S THEN S ELSE ReachFrom(es, T)

AllReachable(k, r, es) == ReachFrom(es, {r}) = 0..(k - 1)

\* The positions of the edges that enter v from another vertex.
Incoming(es, v) == { j \in 1..Len(es) : es[j].to = v /\ es[j].from /= v }

\* Every way to give each vertex of Vs one incoming edge.
RECURSIVE ParentMaps(_, _)
ParentMaps(es, Vs) ==
    IF Vs = {} THEN { << >> }
    ELSE LET v == CHOOSE x \in Vs : TRUE
         IN { (v :> j) @@ f : j \in Incoming(es, v), f \in ParentMaps(es, Vs \ {v}) }

\* Following the chosen edges backwards from v leads to r within steps edges.
RECURSIVE LeadsToRoot(_, _, _, _, _)
LeadsToRoot(f, es, r, v, steps) ==
    IF v = r THEN TRUE
    ELSE IF steps = 0 THEN FALSE
    ELSE LeadsToRoot(f, es, r, es[f[v]].from, steps - 1)

\* The spanning arborescences of (k, es) rooted at r.
Arborescences(k, r, es) ==
    { f \in ParentMaps(es, (0..(k - 1)) \ {r}) :
        \A v \in DOMAIN f : LeadsToRoot(f, es, r, v, k) }

RECURSIVE SumWeights(_, _, _)
SumWeights(f, es, Vs) ==
    IF Vs = {} THEN 0
    ELSE LET v == CHOOSE x \in Vs : TRUE
         IN es[f[v]].weight + SumWeights(f, es, Vs \ {v})

ArborescenceWeights(k, r, es) ==
    { SumWeights(f, es, DOMAIN f) : f \in Arborescences(k, r, es) }

HasArborescence(k, r, es) == Arborescences(k, r, es) /= {}

MinArborescenceWeight(k, r, es) ==
    LET ws == ArborescenceWeights(k, r, es)
    IN CHOOSE w \in ws : \A x \in ws : w <= x

\* The edge list sorted by (from, to, weight): one fixed arrangement of
\* the edges that every permutation of a list shares.
EdgeBefore(a, b) ==
    \/ a.from < b.from
    \/ a.from = b.from /\ a.to < b.to
    \/ a.from = b.from /\ a.to = b.to /\ a.weight <= b.weight

RECURSIVE InsertEdge(_, _)
InsertEdge(e, es) ==
    IF es = << >> THEN << e >>
    ELSE IF EdgeBefore(e, Head(es)) THEN << e >> \o es
    ELSE << Head(es) >> \o InsertEdge(e, Tail(es))

RECURSIVE SortEdges(_)
SortEdges(es) ==
    IF es = << >> THEN << >> ELSE InsertEdge(Head(es), SortEdges(Tail(es)))

----------------------------------------------------------------------------
\* Claims

\* C1: when every vertex is reachable from root, the call returns the
\* minimum, over the spanning arborescences rooted at root, of the sum of
\* the edge weights.
ReturnsMinimumWeight ==
    pc = "done" /\ AllReachable(n0, root0, edges0)
        => result = Returned(MinArborescenceWeight(n0, root0, edges0))

ReturnsMinimumWeightWitness ==
    /\ pc = "done"
    /\ AllReachable(n0, root0, edges0)
    /\ rounds = 2
    /\ result = Returned(MinArborescenceWeight(n0, root0, edges0))

\* C2: when some vertex has no directed path from root in the original
\* graph, the call returns -1, also when every unreachable vertex has an
\* incoming edge and the failure shows only after a contraction.
UnreachableReturnsMinusOne ==
    pc = "done" /\ ~AllReachable(n0, root0, edges0) => result = Returned(-1)

UnreachableReturnsMinusOneWitness ==
    /\ pc = "done"
    /\ ~AllReachable(n0, root0, edges0)
    /\ \A v \in (0..(n0 - 1)) \ {root0} : Incoming(edges0, v) /= {}
    /\ rounds >= 1
    /\ result = Returned(-1)

\* C3: the no-arborescence value is out-of-band: when the graph has a
\* spanning arborescence rooted at root, the value returned is not -1.
SentinelOutOfBand ==
    pc = "done" /\ HasArborescence(n0, root0, edges0) => result /= Returned(-1)

\* C4: when the call returns, the caller's edge list holds the same edges
\* in the same order as before the call.
CallerEdgesUnchanged ==
    pc = "done" => edges = edges0

\* C5: every contraction reduces the vertex count by at least 1, and no
\* call makes more than n - 1 contraction rounds (n the original count).
ContractionShrinks ==
    [][ /\ rounds' /= rounds => n' <= n - 1
        /\ rounds' <= n0 - 1 ]_vars

ContractionShrinksWitness ==
    /\ pc = "done"
    /\ rounds = 2
    /\ n = n0 - 2

\* C6: the result does not depend on the order of the edge list: the call
\* returns what it returns for the sorted list, the one arrangement all
\* permutations of a list share, so any two permutations return the same.
OrderIndependent ==
    pc = "done" => result = ChuLiuEdmonds(n0, root0, SortEdges(edges0))

OrderIndependentWitness ==
    /\ pc = "done"
    /\ SortEdges(edges0) /= edges0
    /\ rounds >= 1
    /\ result /= Returned(-1)
    /\ \E i, j \in 1..Len(edges0) :
          /\ i < j
          /\ edges0[i].to = edges0[j].to
          /\ edges0[i].from /= edges0[j].from
          /\ edges0[i].weight = edges0[j].weight

\* C7: a call that breaks the precondition (an endpoint or the root
\* outside [0, n), or n < 1) never returns a number: it is rejected with
\* an outcome of its own.
MalformedNeverReturns ==
    pc = "done" /\ Malformed(n0, root0, edges0) => result.kind /= "return"

\* C8: with n = 1 and root = 0 the call returns 0 in the first iteration,
\* without a contraction, whatever the edge list.
SingleVertexReturnsZero ==
    pc = "done" /\ n0 = 1 => result = Returned(0) /\ rounds = 0

SingleVertexReturnsZeroWitness ==
    /\ pc = "done"
    /\ n0 = 1
    /\ Len(edges0) >= 2
    /\ result = Returned(0)

\* The selection map of the snapshot, the root having no selection: the
\* vertex that steps selections lead back to from v.
RECURSIVE Ancestor(_, _)
Ancestor(v, steps) ==
    IF steps = 0 \/ v = root THEN v
    ELSE Ancestor(From(edges, inEdge, v), steps - 1)

OnSelectionCycle(v) ==
    v /= root /\ \E s \in 1..n : Ancestor(v, s) = v

SelectionCycleOf(v) == { Ancestor(v, s) : s \in 0..n }

SelectionCycles ==
    { SelectionCycleOf(v) : v \in { x \in 0..(n - 1) : OnSelectionCycle(x) } }

\* C9: at the end of the detection phase every vertex of the snapshot is
\* settled, cycle[v] is set exactly for the vertices on a cycle of the
\* selection map, two vertices have the same cycle id iff they are on the
\* same cycle, cycleCount is the number of cycles, and the root has no
\* cycle id.
DetectionPostcondition ==
    pc = "accumulate" =>
        /\ \A v \in 0..(n - 1) : visited[v] = 2
        /\ \A v \in 0..(n - 1) : (cycle[v] /= -1) <=> OnSelectionCycle(v)
        /\ \A u, v \in 0..(n - 1) :
              OnSelectionCycle(u) /\ OnSelectionCycle(v)
                 => ((cycle[u] = cycle[v]) <=> (v \in SelectionCycleOf(u)))
        /\ cycleCount = Cardinality(SelectionCycles)
        /\ cycle[root] = -1

DetectionPostconditionWitness ==
    /\ pc = "accumulate"
    /\ cycleCount = 2
    /\ \E u, v \in 0..(n - 1) : cycle[u] = 0 /\ cycle[v] = 1

\* C10: at the start of every iteration the snapshot is well formed
\* (root and endpoints in [0, n); no self-loop after the first
\* contraction), it has a spanning arborescence iff the original graph
\* has one, and then minWeight plus its minimum arborescence weight is
\* the minimum arborescence weight of the original graph.
ContractionInvariant ==
    pc = "select" =>
        /\ root \in 0..(n - 1)
        /\ \A i \in 1..Len(edges) :
              /\ edges[i].from \in 0..(n - 1)
              /\ edges[i].to \in 0..(n - 1)
              /\ rounds >= 1 => edges[i].from /= edges[i].to
        /\ HasArborescence(n, root, edges) <=> HasArborescence(n0, root0, edges0)
        /\ HasArborescence(n, root, edges) =>
              minWeight + MinArborescenceWeight(n, root, edges)
                 = MinArborescenceWeight(n0, root0, edges0)

ContractionInvariantWitness ==
    /\ pc = "select"
    /\ rounds = 2
    /\ HasArborescence(n, root, edges)
    /\ minWeight /= 0

====
